---- MODULE Spec2Model ----
(***************************************************************************)
(* A model of dpqa_rs: the circuit container (gates.rs, circuit.rs), the   *)
(* constraint system handed to the SMT solver (variables.rs) and the       *)
(* solve-and-decode routine (dpqa.rs).                                     *)
(*                                                                         *)
(* The SMT solver is modelled by what it is specified to do: it returns    *)
(* "sat" with SOME assignment satisfying every asserted constraint when    *)
(* one exists, and "unsat" otherwise.  Which assignment it returns is a    *)
(* nondeterministic choice.  Qubit and gate indices are 0-based as in the  *)
(* source; TLA+ sequences are 1-based, so element i of a Vec is s[i + 1].  *)
(***************************************************************************)
EXTENDS Integers, Sequences, FiniteSets, TLC

VARIABLES
    gates,         \* Circuit.gates : Vec<TwoQubitGate>
    stages,        \* Circuit.stages : Vec<Vec<usize>>
    n_qubits,      \* Circuit.n_qubits
    dpqa,          \* the DPQA struct, or NoDPQA before DPQA::new / new_aod
    ret,           \* value returned by the most recent call
    vals,          \* solve's local `vals` (DPQAVarsValues) of the last solve
    emitted,       \* for each instruction of the last solve, the loop index jj that pushed it
    tried,         \* outcome of solve per extra_stages value, for this circuit and compiler
    last_call      \* name of the most recent call

vars == <<gates, stages, n_qubits, dpqa, ret, vals, emitted, tried, last_call>>

circuit_vars == <<gates, stages, n_qubits>>

(***************************************************************************)
(* Bounds of the model.                                                    *)
(***************************************************************************)
MaxQubit == 3      \* gates of the general alphabet act on qubits 0 .. MaxQubit-1
MaxGates == 2      \* appended gates per circuit
MaxDim == 2        \* largest rows and cols given to new and new_aod
MaxLoad == 8       \* largest n_qubits * rows * cols compiled for
MaxAod == 1        \* largest aod_rows and aod_cols given to new_aod
MaxStages == 2     \* largest number of time steps n_stages solved for
MaxCircuitQubit == 4    \* circuits that are only built act on qubits 0 .. MaxCircuitQubit-1
MaxCircuitGates == 3    \* appended gates per circuit that is only built

(***************************************************************************)
(* gates.rs                                                                *)
(***************************************************************************)
TwoQubitGateType == {"CX", "CZ"}

TwoQubitGate(gate_type, q_ctrl, q_target) ==
    [gate_type |-> gate_type, q_ctrl |-> q_ctrl, q_target |-> q_target]

parallel_with(self, gate) ==
    /\ self.q_ctrl # gate.q_ctrl
    /\ self.q_ctrl # gate.q_target
    /\ self.q_target # gate.q_ctrl
    /\ self.q_target # gate.q_target

\* Variant of commutes_with whose CX/CX case tests self's control only
commutes_with_one_sided(self, gate) ==
    IF parallel_with(self, gate) THEN TRUE
    ELSE IF self.gate_type = "CX"
         THEN IF gate.gate_type = "CX"
              THEN self.q_ctrl # gate.q_target
              ELSE self.q_target # gate.q_target
         ELSE IF gate.gate_type = "CX"
              THEN self.q_target # gate.q_target
              ELSE TRUE

commutes_with(self, gate) ==
    IF parallel_with(self, gate) THEN TRUE
    ELSE IF self.gate_type = "CX"
         THEN IF gate.gate_type = "CX"
              THEN self.q_ctrl # gate.q_target /\ self.q_target # gate.q_ctrl
              ELSE self.q_target # gate.q_target
         ELSE IF gate.gate_type = "CX"
              THEN self.q_target # gate.q_target
              ELSE TRUE

(***************************************************************************)
(* Small helpers for Vec and iterator idioms.                              *)
(***************************************************************************)
Max(a, b) == IF a >= b THEN a ELSE b

Min(a, b) == IF a <= b THEN a ELSE b

Range(s) == {s[i] : i \in 1..Len(s)}

\* every order in which the elements of a hash container can be iterated
Orderings(S) ==
    {s \in [1..Cardinality(S) -> S] : \A i, j \in 1..Cardinality(S) : i # j => s[i] # s[j]}

\* the elements of a set of naturals in ascending order (order of a 0..n loop)
RECURSIVE Ascending(_)
Ascending(S) ==
    IF S = {} THEN <<>>
    ELSE LET m == CHOOSE a \in S : \A b \in S : a <= b
         IN <<m>> \o Ascending(S \ {m})

RECURSIVE Flatten(_)
Flatten(ss) == IF ss = <<>> THEN <<>> ELSE Head(ss) \o Flatten(Tail(ss))

(***************************************************************************)
(* circuit.rs                                                              *)
(***************************************************************************)
get_n_qubits == n_qubits

get_n_stages == Len(stages)

get_n_two_qubit_gates == Len(gates)

get_gate(n) == gates[n + 1]

GateIdx == 0..(Len(gates) - 1)

Qubits == 0..(n_qubits - 1)

\* Circuit::renumber_qubits: the `seen` vector as the set of seen indices
seen == {gates[i].q_ctrl : i \in 1..Len(gates)} \cup {gates[i].q_target : i \in 1..Len(gates)}

\* Variant of new_idx that leaves every index as it is
new_idx_unchanged(jj) == jj

\* new_idx[jj]: the number of seen indices below jj
new_idx(jj) == Cardinality({k \in seen : k < jj})

\* qubits_used[jj][q] of recalculate_stages, for the stage (a set of gate indices) st
qubits_used(st, q) == \E i \in st : get_gate(i).q_ctrl = q \/ get_gate(i).q_target = q

\* Variant of WalkBack that never walks back
WalkBackNever(new_stages, g, jj, stage_idx) == stage_idx

\* Variant of WalkBack that takes every stage it visits, whether or not the
\* gate's qubits are free there
RECURSIVE WalkBackAnyStage(_, _, _, _)
WalkBackAnyStage(new_stages, g, jj, stage_idx) ==
    IF jj < 0 THEN stage_idx
    ELSE LET st == new_stages[jj + 1]
             commutes == \A gate_idx \in st : commutes_with(get_gate(gate_idx), g)
         IN IF ~commutes THEN jj ELSE WalkBackAnyStage(new_stages, g, jj - 1, jj)

\* Variant of WalkBack that keeps the first free stage it meets, the latest one
RECURSIVE WalkBackLatestFree(_, _, _, _)
WalkBackLatestFree(new_stages, g, jj, stage_idx) ==
    IF jj < 0 THEN stage_idx
    ELSE LET st == new_stages[jj + 1]
             idx == IF /\ ~(qubits_used(st, g.q_ctrl) \/ qubits_used(st, g.q_target))
                       /\ stage_idx = Len(new_stages)
                    THEN jj ELSE stage_idx
             commutes == \A gate_idx \in st : commutes_with(get_gate(gate_idx), g)
         IN IF ~commutes THEN idx ELSE WalkBackLatestFree(new_stages, g, jj - 1, idx)

\* the `for jj in (0..n_s).rev()` loop of recalculate_stages, from jj downwards;
\* jj = -1 is the loop's end.  Returns the final stage_idx.
RECURSIVE WalkBack(_, _, _, _)
WalkBack(new_stages, g, jj, stage_idx) ==
    IF jj < 0 THEN stage_idx
    ELSE LET st == new_stages[jj + 1]
             idx == IF ~(qubits_used(st, g.q_ctrl) \/ qubits_used(st, g.q_target))
                    THEN jj ELSE stage_idx
             commutes == \A gate_idx \in st : commutes_with(get_gate(gate_idx), g)
         IN IF ~commutes THEN idx ELSE WalkBack(new_stages, g, jj - 1, idx)

\* Variant of PlaceGates that pushes a new stage for every gate
RECURSIVE PlaceGatesAlwaysPush(_, _)
PlaceGatesAlwaysPush(new_stages, ii) ==
    IF ii >= Len(gates) THEN new_stages
    ELSE LET g == get_gate(ii)
             n_s == Len(new_stages)
             stage_idx == WalkBack(new_stages, g, n_s - 1, n_s)
             grown == Append(new_stages, {})
         IN PlaceGatesAlwaysPush([grown EXCEPT ![stage_idx + 1] = @ \cup {ii}], ii + 1)

\* the outer loop of recalculate_stages over the gates ii .. n-1; new_stages is a
\* sequence of sets of gate indices (Vec<HashSet<usize>>)
RECURSIVE PlaceGates(_, _)
PlaceGates(new_stages, ii) ==
    IF ii >= Len(gates) THEN new_stages
    ELSE LET g == get_gate(ii)
             n_s == Len(new_stages)
             stage_idx == WalkBack(new_stages, g, n_s - 1, n_s)
             grown == IF stage_idx = n_s THEN Append(new_stages, {}) ELSE new_stages
         IN PlaceGates([grown EXCEPT ![stage_idx + 1] = @ \cup {ii}], ii + 1)

\* `tmp`: each HashSet collected into a Vec in the set's iteration order, which
\* the standard library leaves unspecified
StageVecs(new_stages) ==
    {tmp \in [1..Len(new_stages) -> UNION {Orderings(new_stages[k]) : k \in 1..Len(new_stages)}] :
        \A k \in 1..Len(new_stages) : Range(tmp[k]) = new_stages[k] /\ Len(tmp[k]) = Cardinality(new_stages[k])}

\* Variant of get_gate_ordering that pairs only the first gate of each stage
\* with the gates of the next stage
get_gate_ordering_first_only ==
    Flatten([ii \in 1..(Len(stages) - 1) |->
        [b \in 1..Len(stages[ii + 1]) |-> <<stages[ii][1], stages[ii + 1][b]>>]])

\* Circuit::get_gate_ordering
get_gate_ordering ==
    Flatten([ii \in 1..(Len(stages) - 1) |->
        Flatten([a \in 1..Len(stages[ii]) |->
            [b \in 1..Len(stages[ii + 1]) |-> <<stages[ii][a], stages[ii + 1][b]>>]])])

(***************************************************************************)
(* dpqa.rs: the DPQA struct.  `dpqa` is <<>> before construction and <<d>>  *)
(* afterwards.                                                             *)
(***************************************************************************)
DPQA(rows, cols, aod_rows, aod_cols, extra_stages) ==
    [rows |-> rows, cols |-> cols, aod_rows |-> aod_rows, aod_cols |-> aod_cols,
     extra_stages |-> extra_stages]

\* DPQA::new: the AOD grid inherits the SLM dimensions
new(rows, cols) == DPQA(rows, cols, rows, cols, 0)

new_aod(rows, cols, aod_rows, aod_cols) == DPQA(rows, cols, aod_rows, aod_cols, 0)

\* Variant of n_stages that ignores extra_stages
n_stages_without_extra == get_n_stages

\* n_stages of solve: circuit.get_n_stages() + self.extra_stages
n_stages == get_n_stages + dpqa[1].extra_stages

(***************************************************************************)
(* variables.rs: the constraints.  A qubit's variables at one stage are a  *)
(* record [x, y, c, r, aod] (QubitVarsStage); each operator below is the    *)
(* formula one `solver.assert` call of the source asserts.                 *)
(***************************************************************************)

\* Variant of constraint_grid_bounds with the upper bounds inclusive (v <= max)
grid_bounds_inclusive ==
    [x : 0..dpqa[1].cols, y : 0..dpqa[1].rows,
     c : 0..dpqa[1].aod_cols, r : 0..dpqa[1].aod_rows, aod : BOOLEAN]

\* constraint_grid_bounds: the values one qubit may take at one stage
\* (0 <= x < x_max = cols, 0 <= y < y_max = rows, 0 <= c < c_max, 0 <= r < r_max)
constraint_grid_bounds ==
    [x : 0..(dpqa[1].cols - 1), y : 0..(dpqa[1].rows - 1),
     c : 0..(dpqa[1].aod_cols - 1), r : 0..(dpqa[1].aod_rows - 1), aod : BOOLEAN]

\* require_unchanged: condition => var[0] = var[1]
require_unchanged(condition, var0, var1) == condition => var0 = var1

\* Variant of constraint_fixed_slm that pairs window [t, t+1] with aod[t+1]
fixed_slm_by_next(curr, next) ==
    /\ require_unchanged(~next.aod, curr.x, next.x)
    /\ require_unchanged(~next.aod, curr.y, next.y)

\* constraint_fixed_slm, one qubit and one window: izip!(x.windows(2), y.windows(2), &aod)
\* pairs window [t, t+1] with aod[t]
constraint_fixed_slm(curr, next) ==
    /\ require_unchanged(~curr.aod, curr.x, next.x)
    /\ require_unchanged(~curr.aod, curr.y, next.y)

\* Variant of aod_keeps_cr that pairs window [t, t+1] with aod[t+1]
aod_keeps_cr_by_next(curr, next) ==
    /\ require_unchanged(next.aod, curr.c, next.c)
    /\ require_unchanged(next.aod, curr.r, next.r)

\* constraint_aod_move_together, first loop: one qubit and one window
aod_keeps_cr(curr, next) ==
    /\ require_unchanged(curr.aod, curr.c, next.c)
    /\ require_unchanged(curr.aod, curr.r, next.r)

\* constraint_aod_move_together, second loop: one pair and one window
constraint_aod_move_together(curr0, curr1, next0, next1) ==
    LET both_aod == curr0.aod /\ curr1.aod
    IN /\ (both_aod /\ curr0.c = curr1.c) => next0.x = next1.x
       /\ (both_aod /\ curr0.r = curr1.r) => next0.y = next1.y

\* constraint_aod_order_from_slm: one pair at one stage
constraint_aod_order_from_slm(v0, v1) ==
    LET both_aod == v0.aod /\ v1.aod
    IN /\ (both_aod /\ v0.x < v1.x) => v0.c < v1.c
       /\ (both_aod /\ v1.x < v0.x) => v1.c < v0.c
       /\ (both_aod /\ v0.y < v1.y) => v0.r < v1.r
       /\ (both_aod /\ v1.y < v0.y) => v1.r < v0.r

\* constraint_slm_order_from_aod: one pair and one window
constraint_slm_order_from_aod(curr0, curr1, next0, next1) ==
    LET both_aod == curr0.aod /\ curr1.aod
    IN /\ (both_aod /\ curr0.c < curr1.c) => next0.x <= next1.x
       /\ (both_aod /\ curr1.c < curr0.c) => next1.x <= next0.x
       /\ (both_aod /\ curr0.r < curr1.r) => next0.y <= next1.y
       /\ (both_aod /\ curr1.r < curr0.r) => next1.y <= next0.y

max_stack == 3

\* constraint_aod_crowding: the block for the initial stage, one pair
aod_crowding_initial(q0, q1) ==
    LET both_aod == q0.aod /\ q1.aod
    IN /\ (both_aod /\ q0.c - q1.c >= max_stack) => q0.x > q1.x
       /\ (both_aod /\ q1.c - q0.c >= max_stack) => q1.x > q0.x
       /\ (both_aod /\ q0.r - q1.r >= max_stack) => q0.y > q1.y
       /\ (both_aod /\ q1.r - q0.r >= max_stack) => q1.y > q0.y

\* constraint_aod_crowding: one pair and one window
constraint_aod_crowding(curr0, curr1, next0, next1) ==
    LET both_aod == curr0.aod /\ curr1.aod
    IN /\ (both_aod /\ curr0.c - curr1.c >= max_stack) => next0.x > next1.x
       /\ (both_aod /\ curr0.r - curr1.r >= max_stack) => next0.y > next1.y
       /\ (both_aod /\ curr1.c - curr0.c >= max_stack) => next1.x > next0.x
       /\ (both_aod /\ curr1.r - curr0.r >= max_stack) => next1.y > next0.y

\* constraint_site_crowding: one pair at one stage
constraint_site_crowding(v0, v1) ==
    /\ (v0.aod /\ v1.aod) => (v0.c # v1.c \/ v0.r # v1.r)
    /\ (~v0.aod /\ ~v1.aod) => (v0.x # v1.x \/ v0.y # v1.y)

\* constraint_no_swap: one pair and one window
constraint_no_swap(curr0, curr1, next0, next1) ==
    (next0.x = next1.x /\ next0.y = next1.y)
        => (curr0.aod = next0.aod /\ curr1.aod = next1.aod)

\* t_order: circuit.get_gate_ordering(), as the set of its pairs
t_order == Range(get_gate_ordering)

\* Variant of constraint_t_bounds whose t_order assertions are t[g0] <= t[g1]
t_bounds_order_not_strict(t, T) ==
    /\ \A i \in GateIdx : t[i + 1] >= 0 /\ t[i + 1] < T
    /\ \A p \in t_order : t[p[1] + 1] <= t[p[2] + 1]

\* Variant of constraint_t_bounds without the assertions on t_order
t_bounds_without_order(t, T) ==
    \A i \in GateIdx : t[i + 1] >= 0 /\ t[i + 1] < T

\* constraint_t_bounds over the gate times t (a Vec indexed by gate), t_max = T
constraint_t_bounds(t, T) ==
    /\ \A i \in GateIdx : t[i + 1] >= 0 /\ t[i + 1] < T
    /\ \A p \in t_order : t[p[1] + 1] < t[p[2] + 1]

\* constraint_entangling_gates: one gate (time tg) at one stage, v0 and v1 the
\* variables of its control and target
constraint_entangling_gates(tg, stage, v0, v1) ==
    (tg = stage) => (v0.x = v1.x /\ v0.y = v1.y)

\* interactions.get(&(ii0, ii1)): the gates acting on the unordered pair
interactions(ii0, ii1) ==
    {ii \in GateIdx :
        /\ Min(get_gate(ii).q_ctrl, get_gate(ii).q_target) = ii0
        /\ Max(get_gate(ii).q_target, get_gate(ii).q_ctrl) = ii1}

\* Variant of constraint_interaction_exactness without the branch for the pairs
\* that no gate acts on
interaction_exactness_coupled_only(ii0, ii1, t, stage, v0, v1) ==
    LET gate_indices == interactions(ii0, ii1)
    IN (gate_indices # {})
        => ((v0.x = v1.x /\ v0.y = v1.y) => \E gg \in gate_indices : t[gg + 1] = stage)

\* constraint_interaction_exactness: one pair ii0 < ii1 at one stage
constraint_interaction_exactness(ii0, ii1, t, stage, v0, v1) ==
    LET gate_indices == interactions(ii0, ii1)
    IN IF gate_indices # {}
       THEN (v0.x = v1.x /\ v0.y = v1.y) => \E gg \in gate_indices : t[gg + 1] = stage
       ELSE v0.x # v1.x \/ v0.y # v1.y

\* constraint_gate_type_timing over the gate times
constraint_gate_type_timing(t) ==
    \A ii0, ii1 \in GateIdx :
        (ii0 < ii1 /\ get_gate(ii0).gate_type # get_gate(ii1).gate_type)
            => t[ii0 + 1] # t[ii1 + 1]

(***************************************************************************)
(* The solver.  An assignment is a record [q, t]: q[jj + 1][ii + 1] holds   *)
(* the variables of qubit ii at stage jj and t[i + 1] the time of gate i.   *)
(* set_constraints states every assertion over a whole assignment, with    *)
(* the loops of the source as quantifiers.                                 *)
(***************************************************************************)
set_constraints(v, T) ==
    LET W == 0..(T - 2)    \* the windows(2) of a Vec of length T
        S == 0..(T - 1)
        Q(ii, jj) == v.q[jj + 1][ii + 1]
    IN \* architecture constraints
       /\ \A ii \in Qubits, jj \in S : Q(ii, jj) \in constraint_grid_bounds
       /\ \A ii \in Qubits, jj \in W : constraint_fixed_slm(Q(ii, jj), Q(ii, jj + 1))
       /\ \A ii \in Qubits, jj \in W : aod_keeps_cr(Q(ii, jj), Q(ii, jj + 1))
       /\ \A i0, i1 \in Qubits : i0 < i1 =>
            /\ \A jj \in W :
                /\ constraint_aod_move_together(Q(i0, jj), Q(i1, jj), Q(i0, jj + 1), Q(i1, jj + 1))
                /\ constraint_slm_order_from_aod(Q(i0, jj), Q(i1, jj), Q(i0, jj + 1), Q(i1, jj + 1))
                /\ constraint_aod_crowding(Q(i0, jj), Q(i1, jj), Q(i0, jj + 1), Q(i1, jj + 1))
                /\ constraint_no_swap(Q(i0, jj), Q(i1, jj), Q(i0, jj + 1), Q(i1, jj + 1))
            /\ \A jj \in S :
                /\ constraint_aod_order_from_slm(Q(i0, jj), Q(i1, jj))
                /\ constraint_site_crowding(Q(i0, jj), Q(i1, jj))
                /\ constraint_interaction_exactness(i0, i1, v.t, jj, Q(i0, jj), Q(i1, jj))
            /\ T > 0 => aod_crowding_initial(Q(i0, 0), Q(i1, 0))
       \* circuit-dependent constraints
       /\ constraint_t_bounds(v.t, T)
       /\ \A g \in GateIdx, jj \in S :
            constraint_entangling_gates(v.t[g + 1], jj,
                Q(get_gate(g).q_ctrl, jj), Q(get_gate(g).q_target, jj))
       /\ constraint_gate_type_timing(v.t)

\* the gate times satisfying the assertions that mention gate times only
GateTimes(T) ==
    {t \in [1..Len(gates) -> 0..(T - 1)] :
        constraint_t_bounds(t, T) /\ constraint_gate_type_timing(t)}

\* the assertions on qubit ii0 < ii1 that mention stage `stage` alone
StagePair(ii0, ii1, t, stage, v0, v1) ==
    /\ constraint_aod_order_from_slm(v0, v1)
    /\ constraint_site_crowding(v0, v1)
    /\ (stage = 0) => aod_crowding_initial(v0, v1)
    /\ \A g \in interactions(ii0, ii1) : constraint_entangling_gates(t[g + 1], stage, v0, v1)
    /\ constraint_interaction_exactness(ii0, ii1, t, stage, v0, v1)

\* the assertions on one qubit over the window [curr, next]
WindowQubit(curr, next) == constraint_fixed_slm(curr, next) /\ aod_keeps_cr(curr, next)

\* the assertions on a pair of qubits over the window [curr, next]
WindowPair(curr0, curr1, next0, next1) ==
    /\ constraint_aod_move_together(curr0, curr1, next0, next1)
    /\ constraint_slm_order_from_aod(curr0, curr1, next0, next1)
    /\ constraint_aod_crowding(curr0, curr1, next0, next1)
    /\ constraint_no_swap(curr0, curr1, next0, next1)

\* the values of all qubits at stage `stage` that extend the values p of the
\* qubits 0 .. Len(p)-1 and satisfy every assertion on stage `stage` and on the
\* window from the previous stage's values prev (<<>> at stage 0)
RECURSIVE StageValues(_, _, _, _)
StageValues(prev, p, t, stage) ==
    IF Len(p) = n_qubits THEN {p}
    ELSE LET ii == Len(p)
             cand == {w \in constraint_grid_bounds :
                        /\ (stage > 0) => WindowQubit(prev[ii + 1], w)
                        /\ \A j \in 0..(ii - 1) :
                            /\ StagePair(j, ii, t, stage, p[j + 1], w)
                            /\ (stage > 0) => WindowPair(prev[j + 1], prev[ii + 1], p[j + 1], w)}
         IN UNION {StageValues(prev, Append(p, w), t, stage) : w \in cand}

\* every way to complete the stages 0 .. Len(q)-1 to T stages
RECURSIVE Stagewise(_, _, _)
Stagewise(q, t, T) ==
    IF Len(q) = T THEN {q}
    ELSE LET prev == IF q = <<>> THEN <<>> ELSE q[Len(q)]
         IN UNION {Stagewise(Append(q, s), t, T) : s \in StageValues(prev, <<>>, t, Len(q))}

\* the satisfying assignments: what solver.check() = Sat and eval can return
Models(T) == UNION {{[q |-> q, t |-> t] : q \in Stagewise(<<>>, t, T)} : t \in GateTimes(T)}

(***************************************************************************)
(* dpqa.rs: the decoder of solve.  v is the evaluated model (vals);        *)
(* vals.xy[ii][jj] is (Q.x, Q.y), vals.cr[ii][jj] is (Q.c, Q.r).            *)
(***************************************************************************)
Init_(qubit, x, y, in_aod) ==
    [op |-> "Init", qubit |-> qubit, x |-> x, y |-> y, in_aod |-> in_aod]

MoveAODRow(qubits, y_from, y_to) ==
    [op |-> "MoveAODRow", qubits |-> qubits, y_from |-> y_from, y_to |-> y_to]

MoveAODCol(qubits, x_from, x_to) ==
    [op |-> "MoveAODCol", qubits |-> qubits, x_from |-> x_from, x_to |-> x_to]

MoveToSLM(qubit) == [op |-> "MoveToSLM", qubit |-> qubit]

Gate(gs) == [op |-> "Gate", gates |-> gs]

\* jj = 0: one Init per qubit, `for (ii, xy) in vals.xy.iter().enumerate()`
InitInstrs(v) ==
    [k \in 1..n_qubits |-> Init_(k - 1, v.q[1][k].x, v.q[1][k].y, v.q[1][k].aod)]

\* jj > 0: the AOD to SLM moves, `for ii in 0..n_qubits`
ToSLMInstrs(v, jj) ==
    LET moved == {ii \in Qubits : ~v.q[jj + 1][ii + 1].aod /\ v.q[jj][ii + 1].aod}
        order == Ascending(moved)
    IN [k \in 1..Len(order) |-> MoveToSLM(order[k])]

\* Variant of moves_x that stores the key as (x_curr, x_prev)
moves_x_key_swapped(v, jj) ==
    LET moving == {ii \in Qubits :
                    /\ v.q[jj + 1][ii + 1].x # v.q[jj][ii + 1].x
                    /\ v.q[jj + 1][ii + 1].c = v.q[jj][ii + 1].c}
        key(ii) == <<v.q[jj + 1][ii + 1].x, v.q[jj][ii + 1].x>>
    IN {MoveAODCol(Ascending({ii \in moving : key(ii) = mv}), mv[1], mv[2]) :
            mv \in {key(ii) : ii \in moving}}

\* moves_x: the keys (x_prev, x_curr) and, per key, the qubits pushed in the
\* order of the `for ii in 0..n_qubits` loop
moves_x(v, jj) ==
    LET moving == {ii \in Qubits :
                    /\ v.q[jj + 1][ii + 1].x # v.q[jj][ii + 1].x
                    /\ v.q[jj + 1][ii + 1].c = v.q[jj][ii + 1].c}
        key(ii) == <<v.q[jj][ii + 1].x, v.q[jj + 1][ii + 1].x>>
    IN {MoveAODCol(Ascending({ii \in moving : key(ii) = mv}), mv[1], mv[2]) :
            mv \in {key(ii) : ii \in moving}}

\* Variant of moves_y that lists only the qubits still held by the AOD at jj
moves_y_still_in_aod(v, jj) ==
    LET moving == {ii \in Qubits :
                    /\ v.q[jj + 1][ii + 1].y # v.q[jj][ii + 1].y
                    /\ v.q[jj + 1][ii + 1].aod}
        key(ii) == <<v.q[jj][ii + 1].y, v.q[jj + 1][ii + 1].y>>
    IN {MoveAODRow(Ascending({ii \in moving : key(ii) = mv}), mv[1], mv[2]) :
            mv \in {key(ii) : ii \in moving}}

moves_y(v, jj) ==
    LET moving == {ii \in Qubits :
                    /\ v.q[jj + 1][ii + 1].y # v.q[jj][ii + 1].y
                    /\ v.q[jj + 1][ii + 1].r = v.q[jj][ii + 1].r}
        key(ii) == <<v.q[jj][ii + 1].y, v.q[jj + 1][ii + 1].y>>
    IN {MoveAODRow(Ascending({ii \in moving : key(ii) = mv}), mv[1], mv[2]) :
            mv \in {key(ii) : ii \in moving}}

\* Variant of GateRunEnd whose loop tests vals.t[gate_idx] >= jj
RECURSIVE GateRunEndAtLeast(_, _, _)
GateRunEndAtLeast(v, gate_idx, jj) ==
    IF gate_idx < get_n_two_qubit_gates /\ v.t[gate_idx + 1] >= jj
    THEN GateRunEndAtLeast(v, gate_idx + 1, jj)
    ELSE gate_idx

\* the `while gate_idx < n_gates && vals.t[gate_idx] == jj` loop: gate_idx after it
RECURSIVE GateRunEnd(_, _, _)
GateRunEnd(v, gate_idx, jj) ==
    IF gate_idx < get_n_two_qubit_gates /\ v.t[gate_idx + 1] = jj
    THEN GateRunEnd(v, gate_idx + 1, jj)
    ELSE gate_idx

\* gates_run, pushed as one Gate instruction unless empty
GateInstrs(v, gate_idx, jj) ==
    LET last == GateRunEnd(v, gate_idx, jj)
        gates_run == [k \in 1..(last - gate_idx) |-> get_gate(gate_idx + k - 1)]
    IN IF gates_run # <<>> THEN <<Gate(gates_run)>> ELSE <<>>

\* Variant of StageInstrs that reports the gates before the moves
StageInstrsGatesFirst(v, jj, gate_idx) ==
    IF jj = 0
    THEN {InitInstrs(v) \o GateInstrs(v, gate_idx, jj)}
    ELSE {GateInstrs(v, gate_idx, jj) \o ToSLMInstrs(v, jj) \o mx \o my :
            mx \in Orderings(moves_x(v, jj)), my \in Orderings(moves_y(v, jj))}

\* everything one iteration jj of the stage loop can push; a HashMap is
\* iterated in an unspecified order
StageInstrs(v, jj, gate_idx) ==
    IF jj = 0
    THEN {InitInstrs(v) \o GateInstrs(v, gate_idx, jj)}
    ELSE {ToSLMInstrs(v, jj) \o mx \o my \o GateInstrs(v, gate_idx, jj) :
            mx \in Orderings(moves_x(v, jj)), my \in Orderings(moves_y(v, jj))}

\* the stage loop from jj on: the possible lists of (jj, instruction)
RECURSIVE Decode(_, _, _, _)
Decode(v, jj, gate_idx, T) ==
    IF jj >= T THEN {<<>>}
    ELSE {[k \in 1..Len(a) |-> [jj |-> jj, ins |-> a[k]]] \o b :
            a \in StageInstrs(v, jj, gate_idx),
            b \in Decode(v, jj + 1, GateRunEnd(v, gate_idx, jj), T)}

(***************************************************************************)
(* Return values.                                                          *)
(***************************************************************************)
Void == [kind |-> "void"]

Bool(b) == [kind |-> "bool", value |-> b]

Failed == [kind |-> "Failed"]

Succeeded(instructions) == [kind |-> "Succeeded", instructions |-> instructions]

NoVals == [q |-> <<>>, t |-> <<>>]

(***************************************************************************)
(* The inputs tried.                                                       *)
(***************************************************************************)
\* every gate on distinct qubits below n
AllGates(n) ==
    {TwoQubitGate(ty, a, b) : ty \in TwoQubitGateType, a \in 0..(n - 1), b \in 0..(n - 1)}
        \ {TwoQubitGate(ty, a, a) : ty \in TwoQubitGateType, a \in 0..(n - 1)}

\* the gates appended before compiling: the constraints read a gate's kind and
\* its unordered qubit pair, so one orientation per pair is tried
GateAlphabet == {g \in AllGates(MaxQubit) : g.q_ctrl < g.q_target}

\* the grids (rows, cols) tried for the current circuit
Grids == {g \in (0..MaxDim) \X (0..MaxDim) : n_qubits * g[1] * g[2] <= MaxLoad}

AodGrids == (1..MaxAod) \X (1..MaxAod)

(***************************************************************************)
(* The state machine: a client builds a circuit, then a compiler, sets     *)
(* extra_stages and solves.                                                *)
(***************************************************************************)
Init ==
    /\ gates = <<>>
    /\ stages = <<>>
    /\ n_qubits = 0
    /\ dpqa = <<>>
    /\ ret = Void
    /\ vals = NoVals
    /\ emitted = <<>>
    /\ tried = <<>>
    /\ last_call = "new"

\* Variant of append that sets n_qubits from the appended gate alone
append_n_qubits_of_gate(g) ==
    /\ n_qubits' = Max(g.q_ctrl + 1, g.q_target + 1)
    /\ gates' = Append(gates, g)
    /\ stages' = Append(stages, <<Len(gates') - 1>>)
    /\ ret' = Void
    /\ last_call' = "append"
    /\ UNCHANGED <<dpqa, vals, emitted, tried>>

\* Circuit::append
append(g) ==
    /\ n_qubits' = Max(Max(n_qubits, g.q_ctrl + 1), g.q_target + 1)
    /\ gates' = Append(gates, g)
    /\ stages' = Append(stages, <<Len(gates') - 1>>)
    /\ ret' = Void
    /\ last_call' = "append"
    /\ UNCHANGED <<dpqa, vals, emitted, tried>>

\* a client appending one more gate, before the compiler is built
AppendGate(g) ==
    /\ dpqa = <<>>
    /\ Len(gates) < MaxGates
    /\ append(g)

\* Circuit::renumber_qubits
RenumberQubits ==
    /\ dpqa = <<>>
    /\ IF \A q \in Qubits : q \in seen
       THEN /\ ret' = Bool(FALSE)
            /\ UNCHANGED circuit_vars
       ELSE /\ gates' = [i \in 1..Len(gates) |->
                            TwoQubitGate(gates[i].gate_type, new_idx(gates[i].q_ctrl),
                                         new_idx(gates[i].q_target))]
            /\ n_qubits' = Cardinality(seen)
            /\ ret' = Bool(TRUE)
            /\ UNCHANGED stages
    /\ last_call' = "renumber_qubits"
    /\ UNCHANGED <<dpqa, vals, emitted, tried>>

\* Circuit::recalculate_stages
RecalculateStages ==
    /\ dpqa = <<>>
    /\ \E tmp \in StageVecs(PlaceGates(<<>>, 0)) :
        IF tmp = stages
        THEN ret' = Bool(FALSE) /\ UNCHANGED stages
        ELSE ret' = Bool(TRUE) /\ stages' = tmp
    /\ last_call' = "recalculate_stages"
    /\ UNCHANGED <<gates, n_qubits, dpqa, vals, emitted, tried>>

\* DPQA::new
New(rows, cols) ==
    /\ dpqa = <<>>
    /\ dpqa' = <<new(rows, cols)>>
    /\ ret' = Void
    /\ last_call' = "DPQA::new"
    /\ UNCHANGED <<circuit_vars, vals, emitted, tried>>

\* DPQA::new_aod
NewAod(rows, cols, aod_rows, aod_cols) ==
    /\ dpqa = <<>>
    /\ dpqa' = <<new_aod(rows, cols, aod_rows, aod_cols)>>
    /\ ret' = Void
    /\ last_call' = "DPQA::new_aod"
    /\ UNCHANGED <<circuit_vars, vals, emitted, tried>>

\* DPQA::set_extra_stages
SetExtraStages(extra_stages) ==
    /\ dpqa # <<>>
    /\ get_n_stages + extra_stages <= MaxStages
    /\ dpqa' = <<[dpqa[1] EXCEPT !.extra_stages = extra_stages]>>
    /\ ret' = Void
    /\ vals' = NoVals
    /\ emitted' = <<>>
    /\ last_call' = "set_extra_stages"
    /\ UNCHANGED <<circuit_vars, tried>>

\* DPQA::solve, called once the compiler is configured
Solve ==
    /\ dpqa # <<>>
    /\ ret = Void
    /\ dpqa[1].extra_stages \notin DOMAIN tried
    /\ LET M == Models(n_stages)
           extra == dpqa[1].extra_stages
           log(o) == [k \in DOMAIN tried \cup {extra} |-> IF k = extra THEN o ELSE tried[k]]
       IN IF M = {}
          THEN /\ ret' = Failed
               /\ vals' = NoVals
               /\ emitted' = <<>>
               /\ tried' = log("Failed")
          ELSE \E v \in M : \E d \in Decode(v, 0, 0, n_stages) :
               /\ ret' = Succeeded([k \in 1..Len(d) |-> d[k].ins])
               /\ vals' = v
               /\ emitted' = [k \in 1..Len(d) |-> d[k].jj]
               /\ tried' = log("Succeeded")
    /\ last_call' = "solve"
    /\ UNCHANGED <<circuit_vars, dpqa>>

Next ==
    \/ \E g \in GateAlphabet : AppendGate(g)
    \/ RenumberQubits
    \/ RecalculateStages
    \/ \E g \in Grids : New(g[1], g[2])
    \/ \E g \in Grids, a \in AodGrids : NewAod(g[1], g[2], a[1], a[2])
    \/ \E k \in 0..MaxStages : SetExtraStages(k)
    \/ Solve

Spec == Init /\ [][Next]_vars

(***************************************************************************)
(* The circuit of test gate_types_separated: its four gates are appended,  *)
(* recalculate_stages is called, and the circuit is solved on DPQA::new(2, *)
(* 2) and on DPQA::new(2, 3).  Here the gates may be appended in any order *)
(* and recalculate_stages may be called at any time before the compiler is *)
(* built.                                                                  *)
(***************************************************************************)
gate_types_separated ==
    <<TwoQubitGate("CZ", 0, 2), TwoQubitGate("CZ", 1, 3),
      TwoQubitGate("CX", 4, 5), TwoQubitGate("CX", 6, 7)>>

\* Circuit::append of a gate that the circuit does not hold yet
AppendOnce(g) ==
    /\ dpqa = <<>>
    /\ g \notin Range(gates)
    /\ append(g)

\* DPQA::new(2, 2) or DPQA::new(2, 3), once all four gates are appended and
\* recalculate_stages has returned
NewAfterRecalculate(rows, cols) ==
    /\ Len(gates) = Len(gate_types_separated)
    /\ ret.kind = "bool"
    /\ New(rows, cols)

NextGateTypes ==
    \/ \E g \in Range(gate_types_separated) : AppendOnce(g)
    \/ RecalculateStages
    \/ \E cols \in {2, 3} : NewAfterRecalculate(2, cols)
    \/ Solve

SpecGateTypes == Init /\ [][NextGateTypes]_vars

(***************************************************************************)
(* The two CZ gates of the same test: they act on disjoint qubit pairs, so *)
(* recalculate_stages puts them in one stage.  They are                    *)
(* stage, solved on a row of two or three sites under an AOD of one row    *)
(* and two columns, with or without extra stages.                          *)
(***************************************************************************)
ParallelGates == {TwoQubitGate("CZ", 0, 2), TwoQubitGate("CZ", 1, 3)}

ParallelGrids == {<<1, 2>>, <<1, 3>>}

NextParallel ==
    \/ \E g \in ParallelGates : AppendOnce(g)
    \/ RecalculateStages
    \/ \E g \in ParallelGrids : NewAod(g[1], g[2], 1, 2)
    \/ \E k \in 0..MaxStages : SetExtraStages(k)
    \/ Solve

SpecParallel == Init /\ [][NextParallel]_vars

(***************************************************************************)
(* Three gates on three qubits, every two of them sharing a qubit, so that *)
(* they take three stages: the first three gates are CX gates whose target *)
(* is the next one's control (as CX(0,1), CX(1,2) of test restage_2), the  *)
(* fourth is a CZ.  Any three of them are appended in any order,           *)
(* recalculate_stages is called and the circuit is solved on one row.      *)
(***************************************************************************)
ChainGates ==
    {TwoQubitGate("CX", 0, 1), TwoQubitGate("CX", 1, 2), TwoQubitGate("CX", 2, 0),
     TwoQubitGate("CZ", 0, 1)}

ChainLength == 3

\* Circuit::append of a gate of the chain that the circuit does not hold yet
AppendChain(g) ==
    /\ Len(gates) < ChainLength
    /\ AppendOnce(g)

\* DPQA::new(1, cols), once three gates are appended and recalculate_stages
\* has returned
NewAfterChain(cols) ==
    /\ Len(gates) = ChainLength
    /\ last_call = "recalculate_stages"
    /\ New(1, cols)

NextChain ==
    \/ \E g \in ChainGates : AppendChain(g)
    \/ RecalculateStages
    \/ \E cols \in 1..MaxDim : NewAfterChain(cols)
    \/ Solve

SpecChain == Init /\ [][NextChain]_vars

(***************************************************************************)
(* A client that only builds a circuit: gates of either kind and either    *)
(* orientation are appended, and renumber_qubits and recalculate_stages    *)
(* are called at any time.                                                 *)
(***************************************************************************)
AppendAny(g) ==
    /\ dpqa = <<>>
    /\ Len(gates) < MaxCircuitGates
    /\ append(g)

NextCircuit ==
    \/ \E g \in AllGates(MaxCircuitQubit) : AppendAny(g)
    \/ RenumberQubits
    \/ RecalculateStages

SpecCircuit == Init /\ [][NextCircuit]_vars

(***************************************************************************)
(* The circuit client above, which may also build the circuits of the     *)
(* tests restage_1, restage_2 and fig_2_circuit gate by gate.              *)
(***************************************************************************)
restage_1 == <<TwoQubitGate("CX", 0, 1), TwoQubitGate("CZ", 2, 3)>>

restage_2 ==
    <<TwoQubitGate("CX", 0, 1), TwoQubitGate("CX", 1, 2),
      TwoQubitGate("CX", 3, 2), TwoQubitGate("CX", 2, 3)>>

fig_2_circuit ==
    <<TwoQubitGate("CZ", 2, 4), TwoQubitGate("CZ", 3, 5), TwoQubitGate("CZ", 0, 1),
      TwoQubitGate("CZ", 2, 3), TwoQubitGate("CZ", 4, 5), TwoQubitGate("CZ", 0, 2),
      TwoQubitGate("CZ", 1, 3), TwoQubitGate("CZ", 0, 4), TwoQubitGate("CZ", 1, 5)>>

TestCircuits == {restage_1, restage_2, fig_2_circuit}

\* Circuit::append of the next gate of a test circuit
AppendTest(c) ==
    /\ dpqa = <<>>
    /\ Len(gates) < Len(c)
    /\ gates = SubSeq(c, 1, Len(gates))
    /\ append(c[Len(gates) + 1])

NextTests ==
    \/ \E g \in AllGates(MaxCircuitQubit) : AppendAny(g)
    \/ \E c \in TestCircuits : AppendTest(c)
    \/ RenumberQubits
    \/ RecalculateStages

SpecTests == Init /\ [][NextTests]_vars

(***************************************************************************)
(* Properties.  T is the number of time steps of the last solve and        *)
(* Q(ii, jj) the solved variables of qubit ii at stage jj.                 *)
(***************************************************************************)
SolveSucceeded == ret.kind = "Succeeded"

SolveReturned == ret.kind \in {"Succeeded", "Failed"}

Q(ii, jj) == vals.q[jj + 1][ii + 1]

SameSite(v0, v1) == v0.x = v1.x /\ v0.y = v1.y

\* every Succeeded solve returns an assignment satisfying all the assertions
ModelsSatisfyConstraints == SolveSucceeded => set_constraints(vals, n_stages)

\* the unordered qubit pair of gate g
GatePair(g) == {get_gate(g).q_ctrl, get_gate(g).q_target}

(***************************************************************************)
(* C3.  A2, SLM is stationary.                                             *)
(***************************************************************************)

\* C3 as stated: in every Succeeded solve, for every qubit q and every t' in
\* [1, T), if aod[q][t'] is false (the trap type at the NEW stage) then
\* x[q][t'] = x[q][t'-1] and y[q][t'] = y[q][t'-1].
C3_StationaryByNewStage ==
    SolveSucceeded =>
        \A q \in Qubits, t1 \in 1..(n_stages - 1) :
            ~Q(q, t1).aod => (Q(q, t1).x = Q(q, t1 - 1).x /\ Q(q, t1).y = Q(q, t1 - 1).y)

\* C3 amended: in every Succeeded solve, for every qubit q and every t' in
\* [1, T), if aod[q][t'-1] is false (the trap type at the PREVIOUS stage) then
\* x[q][t'] = x[q][t'-1] and y[q][t'] = y[q][t'-1]: a qubit held in SLM at t'-1
\* does not move in the transition into t'.
C3_StationaryByPrevStage ==
    SolveSucceeded =>
        \A q \in Qubits, t1 \in 1..(n_stages - 1) :
            ~Q(q, t1 - 1).aod => (Q(q, t1).x = Q(q, t1 - 1).x /\ Q(q, t1).y = Q(q, t1 - 1).y)

\* a solve in which a qubit held in SLM at t'-1 is picked up by the AOD at t'
\* while another qubit moves in the same transition
C3_Witness ==
    /\ SolveSucceeded
    /\ \E q, p \in Qubits, t1 \in 1..(n_stages - 1) :
        /\ ~Q(q, t1 - 1).aod /\ Q(q, t1).aod
        /\ p # q /\ (Q(p, t1).x # Q(p, t1 - 1).x \/ Q(p, t1).y # Q(p, t1 - 1).y)

(***************************************************************************)
(* C4.  A3, AOD logical coordinates persist.                               *)
(***************************************************************************)

\* C4 as stated: in every Succeeded solve, for every qubit q and every t' in
\* [1, T), if aod[q][t'] is true (the trap type at the NEW stage) then
\* c[q][t'] = c[q][t'-1] and r[q][t'] = r[q][t'-1].
C4_PersistByNewStage ==
    SolveSucceeded =>
        \A q \in Qubits, t1 \in 1..(n_stages - 1) :
            Q(q, t1).aod => (Q(q, t1).c = Q(q, t1 - 1).c /\ Q(q, t1).r = Q(q, t1 - 1).r)

\* C4 amended: in every Succeeded solve, for every qubit q and every t' in
\* [1, T), if aod[q][t'-1] is true (the trap type at the PREVIOUS stage) then
\* c[q][t'] = c[q][t'-1] and r[q][t'] = r[q][t'-1].
C4_PersistByPrevStage ==
    SolveSucceeded =>
        \A q \in Qubits, t1 \in 1..(n_stages - 1) :
            Q(q, t1 - 1).aod => (Q(q, t1).c = Q(q, t1 - 1).c /\ Q(q, t1).r = Q(q, t1 - 1).r)

\* a solve in which a qubit held by the AOD at t'-1 is in SLM at t' (so only
\* the previous stage's flag binds its c and r), with a choice of c or r open
C4_Witness ==
    /\ SolveSucceeded
    /\ dpqa[1].aod_rows * dpqa[1].aod_cols > 1
    /\ \E q \in Qubits, t1 \in 1..(n_stages - 1) : Q(q, t1 - 1).aod /\ ~Q(q, t1).aod

(***************************************************************************)
(* C5.  C3 of the encoder, interaction exactness.                          *)
(***************************************************************************)

\* C5: in every Succeeded solve, for every pair of distinct qubits q < q' and
\* every stage t, q and q' are at the same (x, y) at t only if some gate acting
\* on the unordered pair {q, q'} has tg = t; a pair that no gate acts on is
\* never at the same (x, y).
C5_InteractionExactness ==
    SolveSucceeded =>
        \A q0, q1 \in Qubits, t \in 0..(n_stages - 1) :
            (q0 < q1 /\ SameSite(Q(q0, t), Q(q1, t)))
                => \E g \in GateIdx : GatePair(g) = {q0, q1} /\ vals.t[g + 1] = t

\* a solve over two or more stages with a pair that no gate acts on and a
\* coupled pair that is apart at one stage and together at another
C5_Witness ==
    /\ SolveSucceeded
    /\ n_stages >= 2
    /\ \E q0, q1 \in Qubits : q0 < q1 /\ \A g \in GateIdx : GatePair(g) # {q0, q1}
    /\ \E q0, q1 \in Qubits, t, u \in 0..(n_stages - 1) :
        /\ q0 < q1
        /\ SameSite(Q(q0, t), Q(q1, t))
        /\ ~SameSite(Q(q0, u), Q(q1, u))

(***************************************************************************)
(* C7.  A single gate with T = 1.                                          *)
(***************************************************************************)

\* the circuit is one gate on qubits 0 and 1, the compiler was built by
\* DPQA::new with extra_stages = 0, and solve has returned
SingleGateSolved ==
    /\ Len(gates) = 1
    /\ GatePair(0) = {0, 1}
    /\ dpqa # <<>>
    /\ dpqa[1] = new(dpqa[1].rows, dpqa[1].cols)
    /\ SolveReturned

\* C7 as stated: for a single gate on qubits 0 and 1 with T = 1 and a compiler
\* built by DPQA::new(rows, cols), solve returns Succeeded if and only if
\* rows * cols >= 2 (Failed on a 1x1 grid, Succeeded on the 2x1 grid).
C7_SucceedsIffTwoSites ==
    SingleGateSolved => (SolveSucceeded <=> dpqa[1].rows * dpqa[1].cols >= 2)

\* C7 amended: for a single gate on qubits 0 and 1 with T = 1 and a compiler
\* built by DPQA::new(rows, cols), solve returns Succeeded if and only if
\* rows * cols >= 1: one site is enough, because one qubit in an SLM trap and
\* one in the AOD may share it.  It returns Succeeded on the 1x1 and the 2x1
\* grid and Failed only on a grid without sites.
C7_SucceedsIffOneSite ==
    SingleGateSolved => (SolveSucceeded <=> dpqa[1].rows * dpqa[1].cols >= 1)

\* the single gate solved on the 1x1 grid: both qubits at the one site, one of
\* them in SLM and one in the AOD
C7_Witness ==
    /\ SingleGateSolved
    /\ dpqa[1].rows = 1 /\ dpqa[1].cols = 1
    /\ SolveSucceeded
    /\ SameSite(Q(0, 0), Q(1, 0))
    /\ Q(0, 0).aod # Q(1, 0).aod

(***************************************************************************)
(* C9.  Gate bundles.                                                      *)
(***************************************************************************)

\* the instruction list of the last solve
Instrs == ret.instructions

\* bundle lists the gates a .. a + Len(bundle) - 1 of the circuit, in that order
BundleIs(bundle, a) ==
    /\ a + Len(bundle) <= Len(gates)
    /\ \A k \in 1..Len(bundle) : bundle[k] = get_gate(a + k - 1)

\* C9: for every Gate bundle emitted at stage t of a Succeeded solve, every
\* gate listed in the bundle has solved time tg = t and its control and target
\* qubits have equal (x, y) at stage t.  (The bundle lists gate values; it is
\* matched with the gate indices it was read from.)
C9_BundleGatesFireTogether ==
    SolveSucceeded =>
        \A i \in 1..Len(Instrs) :
            Instrs[i].op = "Gate" =>
                \E a \in GateIdx :
                    /\ BundleIs(Instrs[i].gates, a)
                    /\ \A g \in a..(a + Len(Instrs[i].gates) - 1) :
                        /\ vals.t[g + 1] = emitted[i]
                        /\ SameSite(Q(get_gate(g).q_ctrl, emitted[i]),
                                    Q(get_gate(g).q_target, emitted[i]))

\* a solve that emits a Gate bundle at stage 0 and another at stage 1
C9_Witness ==
    /\ SolveSucceeded
    /\ \E i, j \in 1..Len(Instrs) :
        /\ Instrs[i].op = "Gate" /\ emitted[i] = 0
        /\ Instrs[j].op = "Gate" /\ emitted[j] = 1

(***************************************************************************)
(* C8.  AOD move instructions.                                             *)
(***************************************************************************)

\* C8 as stated: for every MoveAODCol{qubits, x_from, x_to} emitted for the
\* transition into stage t of a Succeeded solve, all listed qubits have the
\* same AOD logical column c at stage t-1 and each has x = x_from at t-1 and
\* x = x_to at t; for every MoveAODRow all listed qubits share the same logical
\* row r at t-1 and move from y_from to y_to.
C8_MovesShareLogicalLine ==
    SolveSucceeded =>
        \A i \in 1..Len(Instrs) :
            LET t == emitted[i]
                ins == Instrs[i]
            IN /\ ins.op = "MoveAODCol" =>
                    \A q, p \in Range(ins.qubits) :
                        /\ Q(q, t - 1).c = Q(p, t - 1).c
                        /\ Q(q, t - 1).x = ins.x_from /\ Q(q, t).x = ins.x_to
               /\ ins.op = "MoveAODRow" =>
                    \A q, p \in Range(ins.qubits) :
                        /\ Q(q, t - 1).r = Q(p, t - 1).r
                        /\ Q(q, t - 1).y = ins.y_from /\ Q(q, t).y = ins.y_to

\* C8 amended: for every MoveAODCol{qubits, x_from, x_to} emitted for the
\* transition into stage t of a Succeeded solve, every listed qubit is held by
\* the AOD at t-1, keeps its own logical column (c at t equals c at t-1) and
\* has x = x_from at t-1 and x = x_to at t; the listed qubits need not share
\* one logical column, since the decoder groups by (x_from, x_to) and AOD
\* columns stacked at one x move under one instruction.  Analogously for
\* every MoveAODRow with r, y_from and y_to.
C8_MovesFromTo ==
    SolveSucceeded =>
        \A i \in 1..Len(Instrs) :
            LET t == emitted[i]
                ins == Instrs[i]
            IN /\ ins.op = "MoveAODCol" =>
                    \A q \in Range(ins.qubits) :
                        /\ Q(q, t - 1).aod
                        /\ Q(q, t).c = Q(q, t - 1).c
                        /\ Q(q, t - 1).x = ins.x_from /\ Q(q, t).x = ins.x_to
               /\ ins.op = "MoveAODRow" =>
                    \A q \in Range(ins.qubits) :
                        /\ Q(q, t - 1).aod
                        /\ Q(q, t).r = Q(q, t - 1).r
                        /\ Q(q, t - 1).y = ins.y_from /\ Q(q, t).y = ins.y_to

\* a MoveAODCol that lists two qubits of different logical columns
C8_Witness ==
    /\ SolveSucceeded
    /\ \E i \in 1..Len(Instrs) :
        /\ Instrs[i].op = "MoveAODCol"
        /\ \E q, p \in Range(Instrs[i].qubits) :
            Q(q, emitted[i] - 1).c # Q(p, emitted[i] - 1).c

(***************************************************************************)
(* C10.  Instruction emission order.                                       *)
(***************************************************************************)

\* the place of an instruction kind within its stage
Rank(ins) ==
    CASE ins.op = "Init" -> 0
      [] ins.op = "MoveToSLM" -> 1
      [] ins.op = "MoveAODCol" -> 2
      [] ins.op = "MoveAODRow" -> 3
      [] ins.op = "Gate" -> 4

StrictlyAscending(seq) == \A a, b \in 1..Len(seq) : a < b => seq[a] < seq[b]

\* the qubits of the MoveToSLM instructions of stage t, in list order
ToSLMQubits(t) ==
    LET idx == Ascending({i \in 1..Len(Instrs) : emitted[i] = t /\ Instrs[i].op = "MoveToSLM"})
    IN [k \in 1..Len(idx) |-> Instrs[idx[k]].qubit]

\* C10: in a Succeeded solve the list starts with exactly one Init per qubit in
\* ascending qubit index; instructions of stage t precede all instructions of
\* stage t+1; within a stage t >= 1 all MoveToSLM (ascending qubit index,
\* exactly the qubits whose aod went from true at t-1 to false at t) precede
\* all MoveAODCol, which precede all MoveAODRow, which precede the stage's one
\* Gate bundle; inside each move group the qubits are in ascending index.
C10_EmissionOrder ==
    SolveSucceeded =>
        /\ Len(Instrs) >= n_qubits
        /\ \A k \in 1..n_qubits : Instrs[k].op = "Init" /\ Instrs[k].qubit = k - 1
        /\ \A i \in 1..Len(Instrs) : Instrs[i].op = "Init" => (i <= n_qubits /\ emitted[i] = 0)
        /\ \A i, j \in 1..Len(Instrs) : i < j =>
            /\ emitted[i] <= emitted[j]
            /\ emitted[i] = emitted[j] =>
                /\ Rank(Instrs[i]) <= Rank(Instrs[j])
                /\ ~(Instrs[i].op = "Gate" /\ Instrs[j].op = "Gate")
        /\ \A i \in 1..Len(Instrs) :
            /\ Instrs[i].op # "Init" /\ Instrs[i].op # "Gate" => emitted[i] >= 1
            /\ Instrs[i].op \in {"MoveAODCol", "MoveAODRow"} => StrictlyAscending(Instrs[i].qubits)
        /\ \A t \in 1..(n_stages - 1) :
            ToSLMQubits(t) = Ascending({q \in Qubits : Q(q, t - 1).aod /\ ~Q(q, t).aod})

\* a stage t >= 1 that emits a MoveToSLM, then a MoveAODCol, then a Gate bundle
C10_Witness ==
    /\ SolveSucceeded
    /\ \E t \in 1..(n_stages - 1) :
        \A op \in {"MoveToSLM", "MoveAODCol", "Gate"} :
            \E i \in 1..Len(Instrs) : emitted[i] = t /\ Instrs[i].op = op

(***************************************************************************)
(* C6.  Solving the same circuit on the same grid with more extra stages.  *)
(***************************************************************************)

\* C6 as stated: increasing extra_stages is monotone: for every circuit and
\* every grid, if solve returns Succeeded with extra_stages = k then solve
\* returns Succeeded with extra_stages = k + 1.
C6_Monotone ==
    \A k \in DOMAIN tried :
        (k + 1 \in DOMAIN tried /\ tried[k] = "Succeeded") => tried[k + 1] = "Succeeded"

\* the circuit is one gate on qubits 0 and 1 and the compiler was built by
\* DPQA::new, whatever extra_stages was set to afterwards
SingleGateCompiler ==
    /\ Len(gates) = 1
    /\ GatePair(0) = {0, 1}
    /\ n_qubits = 2
    /\ dpqa # <<>>
    /\ dpqa[1].aod_rows = dpqa[1].rows
    /\ dpqa[1].aod_cols = dpqa[1].cols

\* C6 amended: increasing extra_stages is not monotone in general, because a
\* stage without a gate needs every qubit on a site of its own.  For a single
\* gate on qubits 0 and 1 and a compiler built by DPQA::new(rows, cols):
\* with rows * cols >= 2 solve returns Succeeded for every extra_stages (so
\* success at k implies success at k + 1); on the 1x1 grid it returns
\* Succeeded with extra_stages = 0 and Failed with every extra_stages >= 1.
C6_SingleGateExtraStages ==
    SingleGateCompiler =>
        \A k \in DOMAIN tried :
            tried[k] = "Succeeded" <=>
                \/ dpqa[1].rows * dpqa[1].cols >= 2
                \/ dpqa[1].rows * dpqa[1].cols = 1 /\ k = 0

\* the single gate solved with extra_stages = 0 and with extra_stages = 1 on
\* a grid of two sites, the last solve leaving a stage without a gate where
\* the two qubits are apart
C6_Witness ==
    /\ SingleGateCompiler
    /\ dpqa[1].rows * dpqa[1].cols = 2
    /\ {0, 1} \subseteq DOMAIN tried
    /\ tried[0] = "Succeeded" /\ tried[1] = "Succeeded"
    /\ SolveSucceeded
    /\ n_stages = 2
    /\ \E t \in 0..1 : ~SameSite(Q(0, t), Q(1, t))

(***************************************************************************)
(* C1.  Test gate_types_separated.                                         *)
(***************************************************************************)

\* no Gate bundle of the last solve lists both a CX and a CZ
NoMixedBundle ==
    \A i \in 1..Len(Instrs) :
        Instrs[i].op = "Gate" =>
            \A a, b \in 1..Len(Instrs[i].gates) :
                Instrs[i].gates[a].gate_type = Instrs[i].gates[b].gate_type

\* C1: for the circuit [CZ(0,2), CZ(1,3), CX(4,5), CX(6,7)] after
\* recalculate_stages, with extra_stages = 0, solve on DPQA::new(2, 2) returns
\* Failed, and solve on DPQA::new(2, 3) returns Succeeded with no Gate bundle
\* containing both a CX and a CZ.
C1_GateTypesSeparated ==
    (/\ gates = gate_types_separated
     /\ dpqa # <<>>
     /\ SolveReturned)
        => /\ dpqa[1] = new(2, 2) => ret = Failed
           /\ dpqa[1] = new(2, 3) => (SolveSucceeded /\ NoMixedBundle)

(***************************************************************************)
(* C2.  The gates reported per stage.                                      *)
(***************************************************************************)

\* the gates listed by the Gate bundles emitted at stage t, in list order
RECURSIVE BundledAt(_, _)
BundledAt(t, i) ==
    IF i > Len(Instrs) THEN <<>>
    ELSE (IF emitted[i] = t /\ Instrs[i].op = "Gate" THEN Instrs[i].gates ELSE <<>>)
            \o BundledAt(t, i + 1)

\* the gates with tg = t, in original gate order
GatesTimed(t) ==
    LET idx == Ascending({i \in GateIdx : vals.t[i + 1] = t})
    IN [k \in 1..Len(idx) |-> get_gate(idx[k])]

\* C2: for every circuit, grid and extra_stages for which solve returns
\* Succeeded, the decoder emits at each stage t a single Gate bundle containing
\* all gates i with tg[i] = t in original gate order, so every gate of the
\* circuit appears in exactly one Gate bundle (no gate is dropped), whatever
\* the relation between gate index order and the solved gate times.
C2_NoGateDropped ==
    SolveSucceeded =>
        /\ \A t \in 0..(n_stages - 1) : BundledAt(t, 1) = GatesTimed(t)
        /\ \A t \in 0..(n_stages - 1) :
            Cardinality({i \in 1..Len(Instrs) : emitted[i] = t /\ Instrs[i].op = "Gate"}) <= 1

(***************************************************************************)
(* C11, C12.  The return value of recalculate_stages.                      *)
(***************************************************************************)

\* the stage partition stored in st: the set of gate indices of each stage
StagePartition(st) == [k \in 1..Len(st) |-> Range(st[k])]

\* the index of the stage of st that holds gate g
StageOf(st, g) == CHOOSE k \in 1..Len(st) : g \in Range(st[k])

\* C11: recalculate_stages is idempotent: a second call immediately after a
\* first call (no append or renumber in between) returns false (unchanged) and
\* leaves the stored stage partition equal to what it was after the first call.
C11_RecalculateIdempotent ==
    [][(last_call = "recalculate_stages" /\ last_call' = "recalculate_stages")
        => (ret' = Bool(FALSE) /\ StagePartition(stages') = StagePartition(stages))]_vars

\* C12: recalculate_stages returns true if and only if at least one gate ends
\* up in a stage index different from the one it had before the call; when no
\* gate changes stage it returns false and the stored partition is left as it
\* was.
C12_TrueIffGateMoved ==
    [][(last_call' = "recalculate_stages")
        => /\ (ret' = Bool(TRUE)) <=> (\E g \in GateIdx : StageOf(stages', g) # StageOf(stages, g))
           /\ (ret' = Bool(FALSE)) => (stages' = stages)]_vars

(***************************************************************************)
(* C13.  Gates of one stage act on disjoint qubits.                        *)
(***************************************************************************)

\* C13: in every circuit state reachable by append, renumber_qubits and
\* recalculate_stages, any two distinct gates placed in the same stage act on
\* disjoint qubit sets.
C13_StageGatesDisjoint ==
    \A k \in 1..Len(stages) : \A a, b \in 1..Len(stages[k]) :
        a # b => parallel_with(get_gate(stages[k][a]), get_gate(stages[k][b]))

\* recalculate_stages has put two gates in one stage and kept a third gate,
\* which shares a qubit with one of them, in another stage
C13_Witness ==
    /\ last_call = "recalculate_stages"
    /\ \E k, m \in 1..Len(stages) :
        /\ k # m
        /\ Len(stages[k]) = 2
        /\ \E a \in Range(stages[k]), b \in Range(stages[m]) :
            ~parallel_with(get_gate(a), get_gate(b))

(***************************************************************************)
(* C14.  The stages partition the gate indices.                            *)
(***************************************************************************)

\* every gate index appears in exactly one stage, once, and no stage is empty
StagesPartitionGates ==
    /\ \A g \in GateIdx :
        Cardinality({<<k, a>> \in (1..Len(stages)) \X (1..Len(gates)) :
                        a <= Len(stages[k]) /\ stages[k][a] = g}) = 1
    /\ \A k \in 1..Len(stages) : Range(stages[k]) \subseteq GateIdx
    /\ \A k \in 1..Len(stages) : stages[k] # <<>>
    /\ get_n_stages = Len(StagePartition(stages))

\* C14: in every circuit state reachable by append, renumber_qubits and
\* recalculate_stages the stages form a partition of the gate indices
\* 0..n_gates-1: every gate index appears in exactly one stage, no stage is
\* empty, and get_n_stages equals the number of stages; every append adds one
\* trailing singleton stage, so after k appends on a new circuit with no
\* recalculation get_n_stages equals k.
C14_StagesPartition ==
    /\ []StagesPartitionGates
    /\ [][(last_call' = "append")
            => /\ Len(stages') = Len(stages) + 1
               /\ stages'[Len(stages')] = <<Len(gates)>>
               /\ (Len(stages) = Len(gates) => Len(stages') = Len(gates'))]_vars

\* three gates appended and recalculated into fewer stages than gates, then
\* nothing else: a stage holds more than one gate
C14_Witness ==
    /\ last_call = "recalculate_stages"
    /\ Len(gates) = 3
    /\ get_n_stages = 2
    /\ \E k \in 1..Len(stages) : Len(stages[k]) = 2

(***************************************************************************)
(* C15.  Consecutive stages after recalculate_stages.                      *)
(***************************************************************************)

\* C15 as stated: after recalculate_stages, for every two consecutive stages s
\* and s+1 and every gate g of stage s, stage s+1 contains at least one gate
\* that does not commute with g.
C15_NextStageBlocksEachGate ==
    (last_call = "recalculate_stages") =>
        \A s \in 1..(Len(stages) - 1) : \A g \in Range(stages[s]) :
            \E h \in Range(stages[s + 1]) : ~commutes_with(get_gate(g), get_gate(h))

\* C15 amended: after recalculate_stages, for every two consecutive stages s
\* and s+1 and every gate h of stage s+1, stage s contains a gate that comes
\* before h in the circuit and shares a qubit with h, so h cannot be moved up
\* into stage s.  The gates of the two stages may all commute, and stage s+1
\* need not contain a gate that fails to commute with a given gate of stage s.
C15_NextStageGateIsBlocked ==
    (last_call = "recalculate_stages") =>
        \A s \in 1..(Len(stages) - 1) : \A h \in Range(stages[s + 1]) :
            \E g \in Range(stages[s]) : g < h /\ ~parallel_with(get_gate(g), get_gate(h))

\* recalculate_stages has left a gate in a second stage although it commutes
\* with every gate of the stage before
C15_Witness ==
    /\ last_call = "recalculate_stages"
    /\ Len(stages) >= 2
    /\ \E s \in 1..(Len(stages) - 1) : \E h \in Range(stages[s + 1]) :
        /\ \A g \in Range(stages[s]) : commutes_with(get_gate(g), get_gate(h))
        /\ \E g \in Range(stages[s]) : ~parallel_with(get_gate(g), get_gate(h))

(***************************************************************************)
(* C16.  The number of qubits.                                             *)
(***************************************************************************)

\* C16: for any non-empty sequence of append calls on a new circuit, and also
\* after any later renumber_qubits or recalculate_stages, get_n_qubits equals
\* one plus the maximum qubit index (control or target) referenced by the
\* circuit's gates.
C16_QubitsOnePlusMax ==
    (gates # <<>>) =>
        /\ get_n_qubits - 1 \in seen
        /\ \A q \in seen : q <= get_n_qubits - 1

\* an append of a gate on lower qubits than an earlier gate's, which leaves
\* n_qubits as it was
C16_Witness ==
    /\ last_call = "append"
    /\ Len(gates) >= 2
    /\ gates[Len(gates)].q_ctrl + 1 < get_n_qubits
    /\ gates[Len(gates)].q_target + 1 < get_n_qubits

(***************************************************************************)
(* C17.  renumber_qubits.                                                  *)
(***************************************************************************)

\* C17: after renumber_qubits the set of qubit indices used by the circuit's
\* gates is exactly {0, ..., n_qubits-1}; the call returns true if and only
\* if the set of indices used before the call was not already
\* {0, ..., n_qubits-1}, and when it returns false the gates and n_qubits are
\* unchanged.
C17_RenumberContiguous ==
    [][(last_call' = "renumber_qubits")
        => /\ seen' = 0..(n_qubits' - 1)
           /\ (ret' = Bool(TRUE)) <=> (seen # 0..(n_qubits - 1))
           /\ (ret' = Bool(FALSE)) => (gates' = gates /\ n_qubits' = n_qubits)]_vars

\* renumber_qubits has returned true for a circuit of two gates and closed a
\* gap in the qubit indices
C17_Witness ==
    /\ last_call = "renumber_qubits"
    /\ ret = Bool(TRUE)
    /\ Len(gates) = 2
    /\ seen = 0..(n_qubits - 1)
    /\ n_qubits = 3

(***************************************************************************)
(* C18.  get_gate_ordering.                                                *)
(***************************************************************************)

\* C18: get_gate_ordering returns exactly the pairs (g0, g1) of gate indices
\* such that the stage of g0 immediately precedes the stage of g1, each such
\* pair once and no other pair, whether or not g0 and g1 commute or share
\* qubits.
C18_OrderingIsConsecutiveStagePairs ==
    /\ Range(get_gate_ordering) =
        {p \in GateIdx \X GateIdx : StageOf(stages, p[2]) = StageOf(stages, p[1]) + 1}
    /\ Len(get_gate_ordering) = Cardinality(Range(get_gate_ordering))

\* a stage of two gates followed by a stage of one gate: two pairs, one of
\* them of gates on disjoint qubits
C18_Witness ==
    /\ Len(stages) = 2
    /\ Len(stages[1]) = 2
    /\ Len(get_gate_ordering) = 2
    /\ \E k \in 1..2 :
        parallel_with(get_gate(get_gate_ordering[k][1]), get_gate(get_gate_ordering[k][2]))

(***************************************************************************)
(* C19.  commutes_with and parallel_with.                                  *)
(***************************************************************************)

\* the qubits a gate acts on
GateQubits(a) == {a.q_ctrl, a.q_target}

\* C19: for all gates a, b with distinct control and target (here: all gates
\* of the circuit), a.commutes_with(b) = b.commutes_with(a);
\* a.commutes_with(a) is true; a.parallel_with(b) = b.parallel_with(a); and
\* commutes_with is true exactly when the gates act on disjoint qubits, or
\* both are CZ, or both are CX and neither's target equals the other's
\* control, or one is CX and the other CZ and their targets differ.
C19_CommutationRelations ==
    \A i, j \in 1..Len(gates) :
        LET a == gates[i]
            b == gates[j]
        IN /\ commutes_with(a, b) = commutes_with(b, a)
           /\ commutes_with(a, a)
           /\ parallel_with(a, b) = parallel_with(b, a)
           /\ parallel_with(a, b) <=> (GateQubits(a) \cap GateQubits(b) = {})
           /\ commutes_with(a, b) <=>
                \/ GateQubits(a) \cap GateQubits(b) = {}
                \/ a.gate_type = "CZ" /\ b.gate_type = "CZ"
                \/ /\ a.gate_type = "CX" /\ b.gate_type = "CX"
                   /\ a.q_target # b.q_ctrl /\ b.q_target # a.q_ctrl
                \/ /\ a.gate_type # b.gate_type
                   /\ a.q_target # b.q_target

\* recalculate_stages has separated a CX from an earlier CX whose target is
\* its control, in a circuit that also holds a CZ and a CX with one target
C19_Witness ==
    /\ last_call = "recalculate_stages"
    /\ \E i, j \in 1..Len(gates) :
        /\ i < j
        /\ gates[i].gate_type = "CX" /\ gates[j].gate_type = "CX"
        /\ gates[i].q_target = gates[j].q_ctrl
        /\ gates[i].q_ctrl # gates[j].q_target
        /\ StageOf(stages, i - 1) < StageOf(stages, j - 1)
    /\ \E i, j \in 1..Len(gates) :
        /\ gates[i].gate_type = "CX" /\ gates[j].gate_type = "CZ"
        /\ gates[i].q_target = gates[j].q_target

(***************************************************************************)
(* C20.  The dependency barrier.                                           *)
(***************************************************************************)

\* the pairs g0 < g1 of gate indices whose gates do not commute
Dependent ==
    {p \in GateIdx \X GateIdx : p[1] < p[2] /\ ~commutes_with(get_gate(p[1]), get_gate(p[2]))}

\* C20: after recalculate_stages, for any two gates g0 and g1 with g0 earlier
\* than g1 in the original sequence that do not commute, g0 is placed in a
\* strictly earlier stage than g1; and hence in every Succeeded solve
\* tg[g0] < tg[g1].  (The compiler of this client is built right after
\* recalculate_stages has returned.)
C20_DependencyBarrier ==
    /\ (last_call = "recalculate_stages" \/ dpqa # <<>>) =>
            \A p \in Dependent : StageOf(stages, p[1]) < StageOf(stages, p[2])
    /\ SolveSucceeded =>
            \A p \in Dependent : vals.t[p[1] + 1] < vals.t[p[2] + 1]

\* a Succeeded solve of a recalculated circuit in which two gates that do not
\* commute lie two stages apart
C20_Witness ==
    /\ SolveSucceeded
    /\ \E p \in Dependent :
        /\ StageOf(stages, p[2]) = StageOf(stages, p[1]) + 2
        /\ vals.t[p[1] + 1] < vals.t[p[2] + 1]

\* the stage half of C20 in every state of a client that only builds circuits
DependentGatesInStageOrder ==
    \A p \in Dependent : StageOf(stages, p[1]) < StageOf(stages, p[2])

(***************************************************************************)
(* C21.  The freedom of the gate times.                                    *)
(***************************************************************************)

\* the gate-time vectors that satisfy constraint_t_bounds for T time steps
TimesWithinBounds(T) ==
    {t \in [1..Len(gates) -> 0..(T - 1)] : constraint_t_bounds(t, T)}

\* the pairs of distinct gates that share a stage
SameStage ==
    {p \in GateIdx \X GateIdx : p[1] # p[2] /\ StageOf(stages, p[1]) = StageOf(stages, p[2])}

\* C21: with extra_stages = 0, every assignment satisfying the gate-time
\* bounds and the dependency-pair constraints has tg[i] equal to the stage
\* index of gate i in the circuit's stage partition, for every gate i (also in
\* every Succeeded solve); with extra_stages > 0 gates of the same stage may
\* receive different times.
C21_GateTimesAreStageIndices ==
    (dpqa # <<>>) =>
        /\ (dpqa[1].extra_stages = 0) =>
            /\ \A t \in TimesWithinBounds(n_stages) : \A i \in GateIdx :
                    t[i + 1] = StageOf(stages, i) - 1
            /\ SolveSucceeded => \A i \in GateIdx : vals.t[i + 1] = StageOf(stages, i) - 1
        /\ (dpqa[1].extra_stages > 0 /\ SameStage # {}) =>
            \E t \in TimesWithinBounds(n_stages) : \E p \in SameStage : t[p[1] + 1] # t[p[2] + 1]

\* a circuit with two gates in one stage solved with extra_stages = 0 and then
\* with extra_stages = 1, where the two gates received different times
C21_Witness ==
    /\ SolveSucceeded
    /\ dpqa[1].extra_stages = 1
    /\ 0 \in DOMAIN tried /\ tried[0] = "Succeeded"
    /\ \E p \in SameStage : vals.t[p[1] + 1] # vals.t[p[2] + 1]

\* the first half of C21 for the circuits of a client that only builds them
TimesForcedWithoutExtraStages ==
    \A t \in TimesWithinBounds(get_n_stages) : \A i \in GateIdx :
        t[i + 1] = StageOf(stages, i) - 1

(***************************************************************************)
(* C22.  Every position change is reported by exactly one move.            *)
(***************************************************************************)

\* the MoveAODCol instructions emitted for stage t that list qubit q
ColMovesListing(q, t) ==
    {i \in 1..Len(Instrs) :
        emitted[i] = t /\ Instrs[i].op = "MoveAODCol" /\ q \in Range(Instrs[i].qubits)}

\* the MoveAODRow instructions emitted for stage t that list qubit q
RowMovesListing(q, t) ==
    {i \in 1..Len(Instrs) :
        emitted[i] = t /\ Instrs[i].op = "MoveAODRow" /\ q \in Range(Instrs[i].qubits)}

\* C22: in every Succeeded solve, for every qubit q and stage t >= 1, if
\* x[q][t] # x[q][t-1] then q is held by the AOD at t-1 and is listed in
\* exactly one MoveAODCol emitted for stage t, whose x_from is x[q][t-1] and
\* whose x_to is x[q][t]; likewise for y and MoveAODRow.  No qubit held in
\* SLM at t-1 is listed in a move of stage t.
C22_EveryMoveReported ==
    SolveSucceeded =>
        \A q \in Qubits : \A t \in 1..(n_stages - 1) :
            /\ Q(q, t).x # Q(q, t - 1).x =>
                /\ Q(q, t - 1).aod
                /\ Cardinality(ColMovesListing(q, t)) = 1
                /\ \A i \in ColMovesListing(q, t) :
                    /\ Instrs[i].x_from = Q(q, t - 1).x
                    /\ Instrs[i].x_to = Q(q, t).x
                    /\ Cardinality({k \in 1..Len(Instrs[i].qubits) : Instrs[i].qubits[k] = q}) = 1
            /\ Q(q, t).y # Q(q, t - 1).y =>
                /\ Q(q, t - 1).aod
                /\ Cardinality(RowMovesListing(q, t)) = 1
                /\ \A i \in RowMovesListing(q, t) :
                    /\ Instrs[i].y_from = Q(q, t - 1).y
                    /\ Instrs[i].y_to = Q(q, t).y
                    /\ Cardinality({k \in 1..Len(Instrs[i].qubits) : Instrs[i].qubits[k] = q}) = 1
            /\ ~Q(q, t - 1).aod =>
                ColMovesListing(q, t) = {} /\ RowMovesListing(q, t) = {}

\* a Succeeded solve in which one qubit changes x and y into stage t and is
\* dropped into SLM there, while another qubit stays in SLM and is not listed
C22_Witness ==
    /\ SolveSucceeded
    /\ \E q, p \in Qubits : \E t \in 1..(n_stages - 1) :
        /\ Q(q, t).x # Q(q, t - 1).x
        /\ Q(q, t).y # Q(q, t - 1).y
        /\ ~Q(q, t).aod
        /\ ColMovesListing(q, t) # {} /\ RowMovesListing(q, t) # {}
        /\ ~Q(p, t - 1).aod
        /\ ColMovesListing(p, t) = {} /\ RowMovesListing(p, t) = {}

(***************************************************************************)
(* C23.  Greedy earliest placement by recalculate_stages.                  *)
(***************************************************************************)

\* the gates of stage k (1-based) that were placed before gate g
EarlierIn(k, g) == {h \in Range(stages[k]) : h < g}

\* both qubits of g were free in stage k when g was placed
FreeAt(k, g) == \A h \in EarlierIn(k, g) : parallel_with(get_gate(h), get_gate(g))

\* the latest stage holding an earlier gate that does not commute with g; 0
\* if there is none
Barrier(g) ==
    LET B == {k \in 1..Len(stages) :
                \E h \in EarlierIn(k, g) : ~commutes_with(get_gate(h), get_gate(g))}
    IN IF B = {} THEN 0 ELSE CHOOSE k \in B : \A j \in B : j <= k

\* C23: after recalculate_stages, every gate g of a stage after the first
\* shares a qubit with a gate of lower index in the stage before; and the
\* stage of g is the earliest stage, after the latest stage holding an earlier
\* gate that does not commute with g, in which both qubits of g were free
\* when g was placed.  The circuits of the tests restage_1, restage_2 and
\* fig_2_circuit get 1, 3 and 4 stages.
C23_GreedyEarliestPlacement ==
    (last_call = "recalculate_stages") =>
        /\ \A g \in GateIdx :
            LET s == StageOf(stages, g)
            IN /\ s > 1 => \E h \in EarlierIn(s - 1, g) :
                                ~parallel_with(get_gate(h), get_gate(g))
               /\ s > Barrier(g)
               /\ FreeAt(s, g)
               /\ \A j \in (Barrier(g) + 1)..(s - 1) : ~FreeAt(j, g)
        /\ gates = restage_1 => get_n_stages = 1
        /\ gates = restage_2 => get_n_stages = 3
        /\ gates = fig_2_circuit => get_n_stages = 4

\* the circuit of fig_2_circuit recalculated into four stages, with a gate in
\* the last stage
C23_Witness ==
    /\ last_call = "recalculate_stages"
    /\ gates = fig_2_circuit
    /\ get_n_stages = 4
    /\ \E g \in GateIdx : StageOf(stages, g) = 4

\* a gate placed in a stage before a stage that holds an earlier gate on one
\* of its qubits: the walk back passes a stage whose qubits are taken
PlacedBeforeTakenStage ==
    /\ last_call = "recalculate_stages"
    /\ \E g \in GateIdx : \E k \in 1..Len(stages) :
        k > StageOf(stages, g) /\ ~FreeAt(k, g)

====
